---- MODULE Spec2Model ----
\* Model of AllMoviesPro (src/bot.py): the Telegram event handlers, the
\* callback-data encoding, the TMDB / Internet Archive adapters and main().
\* Python strings are modelled as sequences of one-character strings.
EXTENDS Integers, Sequences, FiniteSets, TLC

VARIABLES config, pc, session, recent_chats, seen, last, buttons, pressed, data, results, ia_in, ia_out

vars == <<config, pc, session, recent_chats, seen, last, buttons, pressed, data, results, ia_in, ia_out>>

botVars == <<config, pc, session, recent_chats, seen, last>>
codecVars == <<buttons, pressed>>
searchVars == <<data, results>>
iaVars == <<ia_in, ia_out>>

\* ---------------------------------------------------------------- bounds
NumChats == 2
MaxTextLen == 1
MaxResp == 1
MaxTitleLen == 3
MaxId == 11
MaxResults == 11
MaxDocs == 1
MaxFiles == 2

\* ------------------------------------------------------- string helpers
DigitChars == <<"0", "1", "2", "3", "4", "5", "6", "7", "8", "9">>

UpperChars == <<"A", "B", "C", "D", "E", "F", "G", "H", "I", "J", "K", "L", "M", "N", "O", "P", "Q", "R", "S", "T", "U", "V", "W", "X", "Y", "Z">>

LowerChars == <<"a", "b", "c", "d", "e", "f", "g", "h", "i", "j", "k", "l", "m", "n", "o", "p", "q", "r", "s", "t", "u", "v", "w", "x", "y", "z">>

\* str.lower() on one character
LowerChar(c) ==
    IF \E i \in 1..26 : UpperChars[i] = c
    THEN LowerChars[CHOOSE i \in 1..26 : UpperChars[i] = c]
    ELSE c

\* str.lower()
Lower(s) == [i \in 1..Len(s) |-> LowerChar(s[i])]

\* str.split(sep) for a one-character separator: always at least one segment
RECURSIVE Split(_, _)
Split(s, sep) ==
    IF \A i \in 1..Len(s) : s[i] # sep
    THEN <<s>>
    ELSE LET k == CHOOSE i \in 1..Len(s) : s[i] = sep /\ \A j \in 1..(i - 1) : s[j] # sep
         IN  <<SubSeq(s, 1, k - 1)>> \o Split(SubSeq(s, k + 1, Len(s)), sep)

\* sep.join(parts)
RECURSIVE Join(_, _)
Join(parts, sep) ==
    IF Len(parts) = 0 THEN <<>>
    ELSE IF Len(parts) = 1 THEN parts[1]
    ELSE parts[1] \o <<sep>> \o Join(Tail(parts), sep)

\* str.replace(a, b) for one-character a and b
Replace(s, a, b) == [i \in 1..Len(s) |-> IF s[i] = a THEN b ELSE s[i]]

\* str.strip() (the only whitespace of the model's alphabet is the space)
RECURSIVE LStrip(_)
LStrip(s) == IF Len(s) > 0 /\ s[1] = " " THEN LStrip(Tail(s)) ELSE s

RECURSIVE RStrip(_)
RStrip(s) == IF Len(s) > 0 /\ s[Len(s)] = " " THEN RStrip(SubSeq(s, 1, Len(s) - 1)) ELSE s

Strip(s) == RStrip(LStrip(s))

\* str.split() without argument: whitespace-separated non-empty tokens
SplitWS(s) == SelectSeq(Split(s, " "), LAMBDA t : Len(t) > 0)

\* str.endswith(suffix)
EndsWith(s, suffix) ==
    /\ Len(s) >= Len(suffix)
    /\ SubSeq(s, Len(s) - Len(suffix) + 1, Len(s)) = suffix

\* str(n) for an int
RECURSIVE IntToStr(_)
IntToStr(n) ==
    IF n < 0 THEN <<"-">> \o IntToStr(0 - n)
    ELSE IF n < 10 THEN <<DigitChars[n + 1]>>
    ELSE IntToStr(n \div 10) \o <<DigitChars[(n % 10) + 1]>>

IsDigit(c) == \E i \in 1..10 : DigitChars[i] = c

DigitVal(c) == (CHOOSE i \in 1..10 : DigitChars[i] = c) - 1

RECURSIVE DigitsVal(_)
DigitsVal(s) ==
    IF Len(s) = 0 THEN 0
    ELSE 10 * DigitsVal(SubSeq(s, 1, Len(s) - 1)) + DigitVal(s[Len(s)])

\* int(s): ok is FALSE where Python raises ValueError
StrToInt(s) ==
    LET t == Strip(s)
        body == IF Len(t) > 0 /\ t[1] \in {"-", "+"} THEN Tail(t) ELSE t
    IN  IF Len(body) = 0 \/ \E i \in 1..Len(body) : ~IsDigit(body[i])
        THEN [ok |-> FALSE, val |-> 0]
        ELSE IF t[1] = "-" THEN [ok |-> TRUE, val |-> 0 - DigitsVal(body)]
        ELSE [ok |-> TRUE, val |-> DigitsVal(body)]

\* string literals of the source
MOVIE == <<"m", "o", "v", "i", "e">>
TV == <<"t", "v">>
PERSON == <<"p", "e", "r", "s", "o", "n">>
TAG_pick == <<"p", "i", "c", "k">>
TAG_prov == <<"p", "r", "o", "v">>
TAG_trailer == <<"t", "r", "a", "i", "l", "e", "r">>
TAG_pd == <<"p", "d">>
TAG_rec == <<"r", "e", "c">>
BAR == "|"

\* all sequences over S of length at most n
SeqsUpTo(S, n) == UNION {[1..k -> S] : k \in 0..n}

\* ------------------------------------------------------------ TMDB adapter
TopN == 10

MediaTypes == {MOVIE, TV, PERSON}

\* one raw item of the /search/multi response, reduced to the fields the
\* handlers read
Item(mt, id) == [media_type |-> mt, id |-> id]

Min(a, b) == IF a < b THEN a ELSE b

\* tmdb_search without the [:10] slice
tmdb_searchNoSlice(raw) == SelectSeq(raw, LAMBDA item : item.media_type \in {MOVIE, TV})

\* tmdb_search on the "results" list of a successful response: the first ten
\* raw items, of which those of kind movie or tv are kept, in order
tmdb_search(raw) ==
    SelectSeq(SubSeq(raw, 1, Min(TopN, Len(raw))),
              LAMBDA item : item.media_type \in {MOVIE, TV})

\* -------------------------------------------------- callback-data encoding
\* search_cmd: cbdata = f"pick|{r['media_type']}|{r['id']}"
PickData(r) == TAG_pick \o <<BAR>> \o r.media_type \o <<BAR>> \o IntToStr(r.id)

\* the title written into the callback data as it is
KeepTitle(title) == title

\* on_pick: the title as it is written into the "pd" callback data
SanitizeTitle(title) == Replace(title, BAR, " ")

\* on_pick: the callback data of the four buttons of the detail view
DetailButtons(media_type, tmdb_id, title) ==
    << TAG_prov \o <<BAR>> \o media_type \o <<BAR>> \o IntToStr(tmdb_id),
       TAG_trailer \o <<BAR>> \o media_type \o <<BAR>> \o IntToStr(tmdb_id),
       TAG_pd \o <<BAR>> \o media_type \o <<BAR>> \o IntToStr(tmdb_id) \o <<BAR>> \o SanitizeTitle(title),
       TAG_rec \o <<BAR>> \o media_type \o <<BAR>> \o IntToStr(tmdb_id) >>

\* "_, media_type, id_str = parts; int(id_str)": raises unless there are
\* exactly three parts and the third parses as an int
KindAndId(parts) ==
    IF Len(parts) # 3 \/ ~StrToInt(parts[3]).ok
    THEN [ok |-> FALSE, media_type |-> <<>>, tmdb_id |-> 0]
    ELSE [ok |-> TRUE, media_type |-> parts[2], tmdb_id |-> StrToInt(parts[3]).val]

NoRoute(h) == [handler |-> h, media_type |-> <<>>, tmdb_id |-> 0, title |-> <<>>]

\* callback_router: which handler a callback-data string reaches, and with
\* which decoded arguments ("raise": the decoding itself raised)
Route(cbdata) ==
    LET parts == Split(cbdata, BAR)
        tag == parts[1]
        ki == KindAndId(parts)
        decoded(h) == IF ki.ok
                      THEN [handler |-> h, media_type |-> ki.media_type,
                            tmdb_id |-> ki.tmdb_id, title |-> <<>>]
                      ELSE NoRoute("raise")
    IN  IF Len(cbdata) = 0 THEN NoRoute("return")
        ELSE IF tag = TAG_pick THEN NoRoute("on_pick")
        ELSE IF tag = TAG_prov THEN decoded("on_providers")
        ELSE IF tag = TAG_trailer THEN decoded("on_trailer")
        ELSE IF tag = TAG_pd
             THEN [handler |-> "on_public_domain", media_type |-> <<>>, tmdb_id |-> 0,
                   title |-> Join(SubSeq(parts, 4, Len(parts)), BAR)]
        ELSE IF tag = TAG_rec THEN decoded("on_recommend")
        ELSE NoRoute("answer")

\* ------------------------------------------------------- handler outcomes
\* What one handler call did: the Telegram calls it made, in order; whether an
\* exception left the handler; whether it asked http for a session; the fault
\* it met ("transport": an adapter call raised, "input": arguments or callback
\* data it could not use); and, for /broadcast, the chats a send was attempted to.
Reply(via, text, markup) == [via |-> via, text |-> text, markup |-> markup, n |-> 0]

\* a reply whose text reports the number n
ReplyN(via, text, n) == [via |-> via, text |-> text, markup |-> <<>>, n |-> n]

Outcome(replies, escaped, usedHttp, fault) ==
    [replies |-> replies, escaped |-> escaped, http |-> usedHttp, fault |-> fault,
     attempted |-> <<>>]

Typing == Reply("reply_chat_action", "typing", <<>>)

\* context.args of a CommandHandler callback: message.text.split()[1:]
CommandArgs(rest) == [none |-> FALSE, list |-> SplitWS(rest)]

\* context.args of a MessageHandler callback: never set, so None
NoArgs == [none |-> TRUE, list |-> <<>>]

\* an adapter call that raised
Failed == [ok |-> FALSE, results |-> <<>>]

\* search_cmd without the "if not results" branch
search_cmdNoEmptyCheck(args, key, tmdb) ==
    IF args.none THEN Outcome(<<>>, TRUE, FALSE, "none")
    ELSE IF Len(Strip(Join(args.list, " "))) = 0
    THEN Outcome(<<Reply("reply_text", "Please type: /search <movie/series name>", <<>>)>>,
                 FALSE, FALSE, "input")
    ELSE IF ~key
    THEN Outcome(<<Reply("reply_text", "TMDB_API_KEY missing. Set env var and restart bot.", <<>>)>>,
                 FALSE, FALSE, "none")
    ELSE IF ~tmdb.ok
    THEN Outcome(<<Typing, Reply("reply_text", "TMDB error", <<>>)>>, FALSE, TRUE, "transport")
    ELSE LET found == tmdb_search(tmdb.results)
         IN  Outcome(<<Typing, Reply("reply_text", "Select one:",
                                     [i \in 1..Len(found) |-> PickData(found[i])])>>,
                     FALSE, TRUE, "none")

\* search_cmd(update, context); tmdb is what the /search/multi call does
search_cmd(args, key, tmdb) ==
    IF args.none
    THEN \* " ".join(None) raises TypeError
         Outcome(<<>>, TRUE, FALSE, "none")
    ELSE LET query == Strip(Join(args.list, " "))
         IN  IF Len(query) = 0
             THEN Outcome(<<Reply("reply_text", "Please type: /search <movie/series name>", <<>>)>>,
                          FALSE, FALSE, "input")
             ELSE IF ~key
             THEN Outcome(<<Reply("reply_text", "TMDB_API_KEY missing. Set env var and restart bot.", <<>>)>>,
                          FALSE, FALSE, "none")
             ELSE IF ~tmdb.ok
             THEN Outcome(<<Typing, Reply("reply_text", "TMDB error", <<>>)>>, FALSE, TRUE, "transport")
             ELSE LET found == tmdb_search(tmdb.results)
                  IN  IF Len(found) = 0
                      THEN Outcome(<<Typing, Reply("reply_text", "Koi result nahi mila.", <<>>)>>,
                                   FALSE, TRUE, "none")
                      ELSE Outcome(<<Typing, Reply("reply_text", "Select one:",
                                                   [i \in 1..Len(found) |-> PickData(found[i])])>>,
                                   FALSE, TRUE, "none")

\* on_text_fallback, after the chat was recorded: the rewritten message text
\* is not what search_cmd reads, context.args is
on_text_fallback(text, key, tmdb) ==
    IF Len(Strip(text)) = 0
    THEN Outcome(<<>>, FALSE, FALSE, "none")
    ELSE search_cmd(NoArgs, key, tmdb)

\* start
start == Outcome(<<Typing, Reply("reply_text", "SPLASH", <<>>)>>, FALSE, FALSE, "none")

\* help_cmd
help_cmd == Outcome(<<Reply("reply_text", "Search ke liye: /search <query>", <<>>)>>, FALSE, FALSE, "none")

\* cmd_trending: the two trending calls are not guarded by a try
cmd_trending(key, tmdb) ==
    IF ~key
    THEN Outcome(<<Reply("reply_text", "TMDB_API_KEY missing. Set env var and restart bot.", <<>>)>>,
                 FALSE, FALSE, "none")
    ELSE IF ~tmdb.ok
    THEN Outcome(<<Typing>>, TRUE, TRUE, "transport")
    ELSE Outcome(<<Typing, Reply("reply_text", "Trending Now", <<>>)>>, FALSE, TRUE, "none")

\* ------------------------------------------------------ callback handlers
Edit(text) == Reply("edit_message_text", text, <<>>)

Answer == Reply("answer", "", <<>>)

\* on_pick; details is what the details call does: ok, the title, whether
\* the payload has a poster and whether sending the photo works
on_pick(cbdata, details) ==
    LET ki == KindAndId(Split(cbdata, BAR))
    IN  IF ~ki.ok
        THEN Outcome(<<Answer, Edit("Invalid selection.")>>, FALSE, FALSE, "input")
        ELSE IF ~details.ok
        THEN Outcome(<<Answer, Edit("TMDB error")>>, FALSE, TRUE, "transport")
        ELSE LET markup == DetailButtons(ki.media_type, ki.tmdb_id, details.title)
             IN  IF details.poster /\ details.photo_ok
                 THEN Outcome(<<Answer, Reply("reply_photo", "details", markup)>>, FALSE, TRUE, "none")
                 ELSE Outcome(<<Answer, Reply("edit_message_text", "details", markup)>>, FALSE, TRUE, "none")

\* on_providers; prov is "error", "empty" or "some"
on_providers(prov) ==
    IF prov = "error"
    THEN Outcome(<<Edit("Providers error")>>, FALSE, TRUE, "transport")
    ELSE Outcome(<<Edit("Where to Watch")>>, FALSE, TRUE, "none")

\* on_trailer: the videos call is not guarded by a try
on_trailer(videos) ==
    IF videos = "error" THEN Outcome(<<>>, TRUE, TRUE, "transport")
    ELSE IF videos = "some" THEN Outcome(<<Edit("Trailer: url")>>, FALSE, TRUE, "none")
    ELSE Outcome(<<Edit("Trailer not found.")>>, FALSE, TRUE, "none")

\* on_public_domain
on_public_domain(items) ==
    LET first == Edit("Searching Internet Archive (public-domain/CC)")
    IN  IF items = "error"
        THEN Outcome(<<first, Edit("IA error")>>, FALSE, TRUE, "transport")
        ELSE IF items = "empty"
        THEN Outcome(<<first, Edit("No public-domain/CC results found for this title.")>>,
                     FALSE, TRUE, "none")
        ELSE Outcome(<<first, Edit("archive results")>>, FALSE, TRUE, "none")

\* on_recommend
on_recommend(sims) ==
    IF sims = "error"
    THEN Outcome(<<Edit("Recommendation error")>>, FALSE, TRUE, "transport")
    ELSE IF sims = "empty" THEN Outcome(<<Edit("No similar titles found.")>>, FALSE, TRUE, "none")
    ELSE Outcome(<<Edit("Similar titles")>>, FALSE, TRUE, "none")

\* the title every details payload of the bot specification carries
SampleTitle == <<"a", BAR, "b">>

\* the details payload of a pick under adapter outcome e
DetailsOf(e) ==
    [ok |-> e # "error", title |-> SampleTitle, poster |-> e # "empty",
     photo_ok |-> e # "photo_error"]

\* callback_router: whatever a handler raises is caught and shown in place
callback_router(cbdata, e) ==
    LET r == Route(cbdata)
        inner == IF r.handler = "on_pick" THEN on_pick(cbdata, DetailsOf(e))
                 ELSE IF r.handler = "on_providers" THEN on_providers(e)
                 ELSE IF r.handler = "on_trailer" THEN on_trailer(e)
                 ELSE IF r.handler = "on_public_domain" THEN on_public_domain(e)
                 ELSE IF r.handler = "on_recommend" THEN on_recommend(e)
                 ELSE IF r.handler = "answer" THEN Outcome(<<Answer>>, FALSE, FALSE, "none")
                 ELSE IF r.handler = "return" THEN Outcome(<<>>, FALSE, FALSE, "none")
                 ELSE Outcome(<<>>, TRUE, FALSE, "input")
    IN  IF inner.escaped
        THEN [inner EXCEPT !.replies = Append(@, Edit("Error")), !.escaped = FALSE]
        ELSE inner

\* ----------------------------------------------------------- admin tools
ADMIN_USER_IDS == {1}

NoUser == 0

\* is_admin letting every user through
is_adminAny(user_id) == TRUE

\* is_admin
is_admin(user_id) == user_id \in ADMIN_USER_IDS

\* list(chats): the chats in the order the loop visits them
RECURSIVE ListOf(_)
ListOf(S) ==
    IF S = {} THEN <<>>
    ELSE LET m == CHOOSE x \in S : \A y \in S : x <= y
         IN  <<m>> \o ListOf(S \ {m})

\* the loop of cmd_broadcast with the try/except left out: the first send
\* that raises ends the loop
RECURSIVE BroadcastLoopAbort(_, _, _, _)
BroadcastLoopAbort(list, failing, attempted, sent) ==
    IF Len(list) = 0 THEN [attempted |-> attempted, sent |-> sent]
    ELSE IF list[1] \in failing THEN [attempted |-> Append(attempted, list[1]), sent |-> sent]
    ELSE BroadcastLoopAbort(Tail(list), failing, Append(attempted, list[1]), sent + 1)

\* the loop of cmd_broadcast over the rest of the list: a send that raises is
\* skipped and the loop goes on
RECURSIVE BroadcastLoop(_, _, _, _)
BroadcastLoop(list, failing, attempted, sent) ==
    IF Len(list) = 0 THEN [attempted |-> attempted, sent |-> sent]
    ELSE BroadcastLoop(Tail(list), failing, Append(attempted, list[1]),
                       IF list[1] \in failing THEN sent ELSE sent + 1)

\* cmd_broadcast; user is the sender's id (NoUser: the update has no user),
\* failing the chats for which send_message raises
cmd_broadcast(user, args, chats, failing) ==
    IF user = NoUser \/ ~is_admin(user)
    THEN Outcome(<<Reply("reply_text", "Not authorized.", <<>>)>>, FALSE, FALSE, "none")
    ELSE LET msg == Strip(Join(args.list, " "))
         IN  IF Len(msg) = 0
             THEN Outcome(<<Reply("reply_text", "Usage: /broadcast <message>", <<>>)>>,
                          FALSE, FALSE, "input")
             ELSE LET done == BroadcastLoop(ListOf(chats), failing, <<>>, 0)
                  IN  [Outcome(<<ReplyN("reply_text", "Broadcast sent to ~{sent} chats.", done.sent)>>,
                               FALSE, FALSE, "none")
                       EXCEPT !.attempted = done.attempted]

\* cmd_stats
cmd_stats(chats) ==
    Outcome(<<ReplyN("reply_text", "Known chats: {n} | Admins: {m}", Cardinality(chats))>>,
            FALSE, FALSE, "none")

\* ------------------------------------------------------------ HTTP helper
\* HTTP.session(): a session is created when there is none or it is closed
HTTP_session(sess) == IF sess \in {"none", "closed"} THEN "open" ELSE sess

\* HTTP.close(): an open session is closed, anything else is left alone
HTTP_close(sess) == IF sess = "open" THEN "closed" ELSE sess

\* ------------------------------------------------------- the bot process
Chats == 1..NumChats

\* user ids: 1 is on the allow-list, 2 is not
Users == {1, 2, NoUser}

Texts == SeqsUpTo({"a", " "}, MaxTextLen)

TmdbOutcomes ==
    {Failed} \cup
    {[ok |-> TRUE, results |-> r] : r \in SeqsUpTo({Item(mt, 7) : mt \in MediaTypes}, MaxResp)}

AdapterOutcomes == {"error", "empty", "some"}

PickOutcomes == AdapterOutcomes \cup {"photo_error"}

\* callback data the platform may deliver: the data of the bot's own buttons
\* and strings that do not decode
CallbackSamples ==
    { <<>>,
      PickData(Item(MOVIE, 7)),
      TAG_pick \o <<BAR>> \o MOVIE \o <<BAR, "x">>,
      TAG_pick \o <<BAR>> \o MOVIE,
      TAG_prov \o <<BAR>> \o TV \o <<BAR, "7">>,
      TAG_prov \o <<BAR>> \o TV,
      TAG_trailer \o <<BAR>> \o MOVIE \o <<BAR, "7">>,
      TAG_trailer \o <<BAR>> \o MOVIE \o <<BAR, "x">>,
      TAG_pd \o <<BAR>> \o MOVIE \o <<BAR, "7", BAR, "a", " ", "b">>,
      TAG_pd,
      TAG_rec \o <<BAR>> \o TV \o <<BAR, "7">>,
      TAG_rec \o <<BAR>> \o TV \o <<BAR, "7", BAR, "9">>,
      <<"z">> }

NoOutcome == Outcome(<<>>, FALSE, FALSE, "none")

\* the last event handled: its kind, what it carried, what the outside world
\* did during it, the KnownChatSet it found, and what the handler did
Event(kind, text, cbdata, user, tmdb, adapter, failing, chats, out) ==
    [kind |-> kind, text |-> text, cbdata |-> cbdata, user |-> user, tmdb |-> tmdb,
     adapter |-> adapter, failing |-> failing, chats |-> chats, out |-> out]

NoEvent == Event("none", <<>>, <<>>, NoUser, Failed, "none", {}, {}, NoOutcome)

\* ------------------------------------------- Internet Archive adapter
VIDEO_EXTS == {<<"m", "p", "4">>, <<"m", "4", "v">>, <<"w", "e", "b", "m">>, <<"o", "g", "v">>}

LinkCap == 5

THUMBS == <<".", "t", "h", "u", "m", "b", "s">>

\* ext = name.split(".")[-1].lower()
ExtOf(name) == LET parts == Split(name, ".") IN Lower(parts[Len(parts)])

\* the test a file passes to become a link
IsVideoFile(name) == ExtOf(name) \in VIDEO_EXTS /\ ~EndsWith(name, THUMBS)

\* the item is returned whatever its links
KeepItemAlways(file_links) == TRUE

\* "if file_links:" - an item is returned only with at least one link
KeepItem(file_links) == Len(file_links) > 0

\* the body of the loop over docs for document number ident with the given
\* file names: the item appended to results, if any
ArchiveItem(ident, files) ==
    LET names == SelectSeq(files, IsVideoFile)
        file_links == [i \in 1..Len(names) |-> [identifier |-> ident, name |-> names[i]]]
    IN  IF KeepItem(file_links)
        THEN <<[identifier |-> ident, links |-> SubSeq(file_links, 1, Min(LinkCap, Len(file_links)))]>>
        ELSE <<>>

RECURSIVE ArchiveLoop(_, _, _)
ArchiveLoop(docs, k, failAt) ==
    IF k > Len(docs) THEN [raised |-> FALSE, items |-> <<>>]
    ELSE IF failAt = k + 1 THEN [raised |-> TRUE, items |-> <<>>]
    ELSE LET rest == ArchiveLoop(docs, k + 1, failAt)
         IN  IF rest.raised THEN rest
             ELSE [raised |-> FALSE, items |-> ArchiveItem(k, docs[k]) \o rest.items]

\* ia_search_public_domain: docs[k] is the file listing of the k-th document
\* of the search response; call number failAt raises (1: the search, k + 1:
\* the metadata lookup of document k, 0: none)
ia_search_public_domain(docs, failAt) ==
    IF failAt = 1 THEN [done |-> TRUE, raised |-> TRUE, items |-> <<>>]
    ELSE LET r == ArchiveLoop(docs, 1, failAt)
         IN  [done |-> TRUE, raised |-> r.raised, items |-> r.items]

pureInit ==
    /\ buttons = [media_type |-> <<>>, tmdb_id |-> 0, title |-> <<>>, markup |-> <<>>]
    /\ pressed = [i |-> 0, route |-> NoRoute("none")]
    /\ data = <<>>
    /\ results = [done |-> FALSE, items |-> <<>>]
    /\ ia_in = [docs |-> <<>>, failAt |-> 0]
    /\ ia_out = [done |-> FALSE, raised |-> FALSE, items |-> <<>>]

Init ==
    /\ config \in [BOT_TOKEN : BOOLEAN, TMDB_API_KEY : BOOLEAN]
    /\ pc = "main"
    /\ session = "none"
    /\ recent_chats = {}
    /\ seen = {}
    /\ last = NoEvent
    /\ pureInit

pureVars == <<buttons, pressed, data, results, ia_in, ia_out>>

\* main(), up to the try: missing credentials end the process at once
MainCheck ==
    /\ pc = "main"
    /\ pc' = IF config.BOT_TOKEN /\ config.TMDB_API_KEY THEN "initialize" ELSE "exited"
    /\ UNCHANGED <<config, session, recent_chats, seen, last, pureVars>>

\* one of the awaits of the try block returns, or raises into the finally
Startup ==
    /\ pc \in {"initialize", "start", "start_polling"}
    /\ \E ok \in BOOLEAN :
         pc' = IF ~ok THEN "finally"
               ELSE IF pc = "initialize" THEN "start"
               ELSE IF pc = "start" THEN "start_polling"
               ELSE "waiting"
    /\ UNCHANGED <<config, session, recent_chats, seen, last, pureVars>>

\* KeyboardInterrupt / cancellation while main() waits on the Event
Interrupt ==
    /\ pc = "waiting"
    /\ pc' = "finally"
    /\ UNCHANGED <<config, session, recent_chats, seen, last, pureVars>>

\* the finally block of main(): three awaits in a row, so the session is
\* closed only when neither updater.stop() nor app.stop() raises
MainFinally(sess, updater_stop_ok, app_stop_ok) ==
    IF updater_stop_ok /\ app_stop_ok THEN HTTP_close(sess) ELSE sess

Finally ==
    /\ pc = "finally"
    /\ \E updater_stop_ok \in BOOLEAN, app_stop_ok \in BOOLEAN :
         session' = MainFinally(session, updater_stop_ok, app_stop_ok)
    /\ pc' = "exited"
    /\ UNCHANGED <<config, recent_chats, seen, last, pureVars>>

\* an update from chat c was handled as ev; only on_text_fallback records the
\* chat (record is TRUE for it alone)
Handled(c, ev, record) ==
    /\ last' = ev
    /\ seen' = seen \cup {c}
    /\ recent_chats' = IF record THEN recent_chats \cup {c} ELSE recent_chats
    /\ session' = IF ev.out.http THEN HTTP_session(session) ELSE session
    /\ UNCHANGED <<config, pc, pureVars>>

CmdStart ==
    /\ pc = "waiting"
    /\ \E c \in Chats :
         Handled(c, Event("start", <<>>, <<>>, NoUser, Failed, "none", {}, recent_chats, start), FALSE)

CmdHelp ==
    /\ pc = "waiting"
    /\ \E c \in Chats :
         Handled(c, Event("help", <<>>, <<>>, NoUser, Failed, "none", {}, recent_chats, help_cmd), FALSE)

CmdSearch ==
    /\ pc = "waiting"
    /\ \E c \in Chats, rest \in Texts, tmdb \in TmdbOutcomes :
         Handled(c, Event("search", rest, <<>>, NoUser, tmdb, "none", {}, recent_chats,
                          search_cmd(CommandArgs(rest), config.TMDB_API_KEY, tmdb)), FALSE)

CmdTrending ==
    /\ pc = "waiting"
    /\ \E c \in Chats, ok \in BOOLEAN :
         LET tmdb == [ok |-> ok, results |-> <<>>]
         IN  Handled(c, Event("trending", <<>>, <<>>, NoUser, tmdb, "none", {}, recent_chats,
                              cmd_trending(config.TMDB_API_KEY, tmdb)), FALSE)

\* send_message can fail only where it is called: for an admin's non-empty text
CmdBroadcast ==
    /\ pc = "waiting"
    /\ \E c \in Chats, u \in Users, rest \in Texts :
       \E failing \in SUBSET (IF is_admin(u) /\ Len(Strip(rest)) > 0 THEN recent_chats ELSE {}) :
         Handled(c, Event("broadcast", rest, <<>>, u, Failed, "none", failing, recent_chats,
                          cmd_broadcast(u, CommandArgs(rest), recent_chats, failing)), FALSE)

CmdStats ==
    /\ pc = "waiting"
    /\ \E c \in Chats :
         Handled(c, Event("stats", <<>>, <<>>, NoUser, Failed, "none", {}, recent_chats,
                          cmd_stats(recent_chats)), FALSE)

TextMessage ==
    /\ pc = "waiting"
    /\ \E c \in Chats, text \in Texts, tmdb \in TmdbOutcomes :
         Handled(c, Event("text", text, <<>>, NoUser, tmdb, "none", {}, recent_chats,
                          on_text_fallback(text, config.TMDB_API_KEY, tmdb)), TRUE)

CallbackQuery ==
    /\ pc = "waiting"
    /\ \E c \in Chats, cbdata \in CallbackSamples :
         \E e \in IF Route(cbdata).handler = "on_pick" THEN PickOutcomes ELSE AdapterOutcomes :
           Handled(c, Event("callback", <<>>, cbdata, NoUser, Failed, e, {}, recent_chats,
                            callback_router(cbdata, e)), FALSE)

Next ==
    \/ MainCheck
    \/ Startup
    \/ Interrupt
    \/ Finally
    \/ CmdStart
    \/ CmdHelp
    \/ CmdSearch
    \/ CmdTrending
    \/ CmdBroadcast
    \/ CmdStats
    \/ TextMessage
    \/ CallbackQuery

Spec == Init /\ [][Next]_vars

\* ------------------------------------ the callback data, built and decoded
botInit ==
    /\ config = [BOT_TOKEN |-> TRUE, TMDB_API_KEY |-> TRUE]
    /\ pc = "waiting"
    /\ session = "none"
    /\ recent_chats = {}
    /\ seen = {}
    /\ last = NoEvent

Titles == SeqsUpTo({"a", BAR, " "}, MaxTitleLen)

CodecInit ==
    /\ botInit
    /\ buttons \in {[media_type |-> mt, tmdb_id |-> id, title |-> title, markup |-> <<>>] :
                      mt \in {MOVIE, TV}, id \in 0..MaxId, title \in Titles}
    /\ pressed = [i |-> 0, route |-> NoRoute("none")]
    /\ data = <<>>
    /\ results = [done |-> FALSE, items |-> <<>>]
    /\ ia_in = [docs |-> <<>>, failAt |-> 0]
    /\ ia_out = [done |-> FALSE, raised |-> FALSE, items |-> <<>>]

\* the picker button search_cmd built for (media_type, tmdb_id) is pressed and
\* on_pick renders the detail view of a title with its four buttons
Pick ==
    /\ buttons.markup = <<>>
    /\ LET out == on_pick(PickData(Item(buttons.media_type, buttons.tmdb_id)),
                          [ok |-> TRUE, title |-> buttons.title, poster |-> FALSE, photo_ok |-> TRUE])
       IN  buttons' = [buttons EXCEPT !.markup = out.replies[Len(out.replies)].markup]
    /\ UNCHANGED <<pressed, botVars, searchVars, iaVars>>

\* one of the buttons of the detail view is pressed and callback_router
\* decodes its data
Press ==
    \E i \in 1..Len(buttons.markup) :
      /\ pressed' = [i |-> i, route |-> Route(buttons.markup[i])]
      /\ UNCHANGED <<buttons, botVars, searchVars, iaVars>>

CodecNext ==
    \/ Pick
    \/ Press

SpecCodec == CodecInit /\ [][CodecNext]_vars

\* ------------------------------------------------- tmdb_search on its own
RawResults == SeqsUpTo({Item(mt, 7) : mt \in MediaTypes}, MaxResults)

SearchInit ==
    /\ botInit
    /\ buttons = [media_type |-> <<>>, tmdb_id |-> 0, title |-> <<>>, markup |-> <<>>]
    /\ pressed = [i |-> 0, route |-> NoRoute("none")]
    /\ data \in RawResults
    /\ results = [done |-> FALSE, items |-> <<>>]
    /\ ia_in = [docs |-> <<>>, failAt |-> 0]
    /\ ia_out = [done |-> FALSE, raised |-> FALSE, items |-> <<>>]

Search ==
    /\ ~results.done
    /\ results' = [done |-> TRUE, items |-> tmdb_search(data)]
    /\ UNCHANGED <<data, botVars, codecVars, iaVars>>

SearchNext == Search

SpecSearch == SearchInit /\ [][SearchNext]_vars

\* ------------------------------------- ia_search_public_domain on its own
FileNames ==
    { <<"a", ".", "m", "p", "4">>,
      <<"a", ".", "M", "P", "4">>,
      <<"w", "e", "b", "m">>,
      <<"a", ".", "t", "x", "t">>,
      <<"a", ".", "o", "g", "v">> \o THUMBS,
      <<>> }

ArchiveDocs == SeqsUpTo(SeqsUpTo(FileNames, MaxFiles), MaxDocs)

ArchiveInit ==
    /\ botInit
    /\ buttons = [media_type |-> <<>>, tmdb_id |-> 0, title |-> <<>>, markup |-> <<>>]
    /\ pressed = [i |-> 0, route |-> NoRoute("none")]
    /\ data = <<>>
    /\ results = [done |-> FALSE, items |-> <<>>]
    /\ ia_in \in {[docs |-> d, failAt |-> f] : d \in ArchiveDocs, f \in 0..(MaxDocs + 1)}
    /\ ia_out = [done |-> FALSE, raised |-> FALSE, items |-> <<>>]

ArchiveSearch ==
    /\ ~ia_out.done
    /\ ia_out' = ia_search_public_domain(ia_in.docs, ia_in.failAt)
    /\ UNCHANGED <<ia_in, botVars, codecVars, searchVars>>

ArchiveNext == ArchiveSearch

SpecArchive == ArchiveInit /\ [][ArchiveNext]_vars

\* ------------------------------------------------------------- the claims
TextReplies(out) ==
    {i \in 1..Len(out.replies) : out.replies[i].via \in {"reply_text", "edit_message_text"}}

\* C1: after any sequence of events, the KnownChatSet holds the chat id of
\* every event handled so far, whatever the kind of event.
C1_EveryChatIsKnown == seen \subseteq recent_chats

\* C2: a non-empty free-text message t is handled exactly as the command
\* "/search t" is under the same TMDB response: same replies, same outcome.
C2_TextIsSearch ==
    (last.kind = "text" /\ Len(Strip(last.text)) > 0)
        => last.out = search_cmd(CommandArgs(last.text), config.TMDB_API_KEY, last.tmdb)

\* C3: in the search, trending and button handlers, a failed adapter call or
\* malformed arguments / callback data end in a text shown to the user, and no
\* exception leaves the handler.
C3_FaultsBecomeReplies ==
    (last.kind \in {"search", "trending", "callback"} /\ last.out.fault # "none")
        => (~last.out.escaped /\ TextReplies(last.out) # {})

\* C4: an admin's /broadcast with non-empty text attempts a send to each of the
\* N known chats, reports N minus the number of failing sends, and lets no
\* exception of a send escape.
C4_BroadcastCount ==
    (last.kind = "broadcast" /\ last.user \in ADMIN_USER_IDS /\ Len(Strip(last.text)) > 0)
        => /\ {last.out.attempted[i] : i \in 1..Len(last.out.attempted)} = last.chats
           /\ Len(last.out.attempted) = Cardinality(last.chats)
           /\ Len(last.out.replies) = 1
           /\ last.out.replies[1].n = Cardinality(last.chats) - Cardinality(last.failing)
           /\ ~last.out.escaped

C4_Witness ==
    /\ last.kind = "broadcast"
    /\ last.user \in ADMIN_USER_IDS
    /\ Cardinality(last.chats) = NumChats
    /\ Cardinality(last.failing) = 1
    /\ last.out.replies[1].n = NumChats - 1

\* C5: /broadcast from a user who is not on the allow-list, or from no user,
\* answers "Not authorized." and attempts no send, whatever the known chats
\* and the text.
C5_NonAdminRejected ==
    (last.kind = "broadcast" /\ last.user \notin ADMIN_USER_IDS)
        => /\ last.out.replies = <<Reply("reply_text", "Not authorized.", <<>>)>>
           /\ last.out.attempted = <<>>
           /\ ~last.out.escaped

C5_Witness ==
    /\ last.kind = "broadcast"
    /\ last.user = 2
    /\ last.chats # {}
    /\ Len(Strip(last.text)) > 0
    /\ last.out.replies[1].text = "Not authorized."

\* C8: a /search whose TMDB response has no movie or tv item among its first
\* ten answers "Koi result nahi mila." and sends nothing with buttons.
C8_NoResultsNoGrid ==
    (/\ last.kind = "search"
     /\ Len(Strip(last.text)) > 0
     /\ last.tmdb.ok
     /\ \A i \in 1..Min(TopN, Len(last.tmdb.results)) :
          last.tmdb.results[i].media_type \notin {MOVIE, TV})
        => /\ \E i \in 1..Len(last.out.replies) : last.out.replies[i].text = "Koi result nahi mila."
           /\ \A i \in 1..Len(last.out.replies) : last.out.replies[i].markup = <<>>

C8_Witness ==
    /\ last.kind = "search"
    /\ last.tmdb.ok
    /\ Len(last.tmdb.results) > 0
    /\ \A i \in 1..Len(last.tmdb.results) : last.tmdb.results[i].media_type = PERSON
    /\ \E i \in 1..Len(last.out.replies) : last.out.replies[i].text = "Koi result nahi mila."

\* C10: once main() has been left, no HTTP session is open, whichever way it
\* was left (stop, interrupt, a failing startup step or a failing stop).
C10_ClosedOnExit == pc = "exited" => session # "open"

\* C6: the "pd" button of the detail view decodes to the title with every "|"
\* turned into a space, and the provider, trailer and recommendation buttons
\* decode to the media kind and id they were built from.
C6_RoundTrip ==
    pressed.i # 0 =>
        LET r == pressed.route
        IN  /\ r.handler = <<"on_providers", "on_trailer", "on_public_domain", "on_recommend">>[pressed.i]
            /\ pressed.i = 3 =>
                 /\ Len(r.title) = Len(buttons.title)
                 /\ \A k \in 1..Len(r.title) :
                      r.title[k] = IF buttons.title[k] = "|" THEN " " ELSE buttons.title[k]
            /\ pressed.i # 3 =>
                 /\ r.media_type = buttons.media_type
                 /\ r.tmdb_id = buttons.tmdb_id

C6_Witness ==
    /\ pressed.i = 3
    /\ pressed.route.handler = "on_public_domain"
    /\ Len(buttons.title) = MaxTitleLen
    /\ buttons.title[2] = "|"
    /\ pressed.route.title[2] = " "
    /\ buttons.tmdb_id >= 10

\* C9: tmdb_search returns at most ten items, each of kind movie or tv.
C9_TopTenMovieOrTv ==
    results.done =>
        /\ Len(results.items) <= 10
        /\ \A i \in 1..Len(results.items) : results.items[i].media_type \in {MOVIE, TV}

C9_Witness ==
    /\ results.done
    /\ Len(data) > TopN
    /\ \A i \in 1..Len(data) : data[i].media_type = IF i = 2 THEN PERSON ELSE IF i = 3 THEN TV ELSE MOVIE
    /\ Len(results.items) = TopN - 1

\* the file name has an extension, the text after its last dot, and that
\* extension is one of the four
HasVideoExtension(name) ==
    \E k \in 1..Len(name) : name[k] = "." /\ SubSeq(name, k + 1, Len(name)) \in VIDEO_EXTS

\* C7 as stated: no returned item is without links, and every link names a
\* file whose extension is one of mp4, m4v, webm, ogv.
C7_LinksHaveVideoExtension ==
    \A i \in 1..Len(ia_out.items) :
        /\ Len(ia_out.items[i].links) > 0
        /\ \A j \in 1..Len(ia_out.items[i].links) : HasVideoExtension(ia_out.items[i].links[j].name)

\* C7 as amended: no returned item is without links, and for every link the
\* text after the last dot of the file name (the whole name when it has no
\* dot), lower-cased, is one of mp4, m4v, webm, ogv.
C7_LinksMatchLowercased ==
    \A i \in 1..Len(ia_out.items) :
        /\ Len(ia_out.items[i].links) > 0
        /\ \A j \in 1..Len(ia_out.items[i].links) :
             LET name == ia_out.items[i].links[j].name
                 dots == {k \in 1..Len(name) : name[k] = "."}
                 from == IF dots = {} THEN 1 ELSE (CHOOSE k \in dots : \A m \in dots : m <= k) + 1
             IN  Lower(SubSeq(name, from, Len(name))) \in VIDEO_EXTS

C7_Witness ==
    /\ ia_out.done
    /\ ~ia_out.raised
    /\ Len(ia_in.docs) = MaxDocs
    /\ Len(ia_in.docs[1]) = MaxFiles
    /\ Len(ia_out.items) = 1
    /\ Len(ia_out.items[1].links) = 1
    /\ ia_out.items[1].links[1].name = <<"a", ".", "M", "P", "4">>

====
